---- MODULE Spec2Model ----
(***************************************************************************)
(* A model of the AnimationData class: discovery of replication manifests, *)
(* activation of a replication (entity-path batches and statistics files   *)
(* are loaded into caches) and the queries over the caches.                *)
(*                                                                         *)
(* The repository holds two copies of the class.  The variable `variant`   *)
(* says which copy an instance is built from:                              *)
(*   "AnimationData"   the copy that clears all three caches on activation *)
(*                     and loads the statistics files with Promise.all     *)
(*   "LoaderCopy"      the copy kept in loaders/node-file-reader.ts, which *)
(*                     leaves the statistics cache alone on activation and *)
(*                     loads the statistics files one after the other      *)
(*                                                                         *)
(* A step of the model is what one call does between two suspensions on    *)
(* the file reader (the code between two awaits of an I/O promise).        *)
(***************************************************************************)
EXTENDS Integers, Sequences, FiniteSets, TLC

VARIABLES
    variant,                  \* which copy of the class the instance is
    availableReplications,    \* Map<number, ReplicationManifestData>
    modelLayout,              \* ModelLayout | undefined
    sharedVisualConfig,       \* SharedVisualConfig | undefined
    activeReplicationId,      \* number | undefined
    loadedEntityPathBatches,  \* Map<string, EntityPathBatch>
    entityPathsById,          \* Map<string, EntityPath>
    loadedStatisticsFiles,    \* Map<string, StatisticsFile>
    call,                     \* the call in flight and where it is suspended
    ret,                      \* what the last call returned (none while a call is in flight)
    reads,                    \* the paths the current (or last) call asked the reader for
    before                    \* what the call before the latest activation left

vars == <<variant, availableReplications, modelLayout, sharedVisualConfig,
          activeReplicationId, loadedEntityPathBatches, entityPathsById,
          loadedStatisticsFiles, call, ret, reads, before>>

(***************************************************************************)
(* Bounds of the model.                                                    *)
(***************************************************************************)
MaxListing == 2

(***************************************************************************)
(* JavaScript values.  Every value is a record with a field k, so that any *)
(* two values can be compared.                                             *)
(***************************************************************************)
Undefined == [k |-> "undefined"]

JNull == [k |-> "null"]

Num(n) == [k |-> "num", n |-> n]

Arr(s) == [k |-> "arr", items |-> s]

\* if (v) ... : undefined and null are falsy, objects, arrays and the
\* replication numbers used here are truthy
Truthy(v) == v.k \notin {"undefined", "null"}

\* if (path) ... on a string: the empty string is falsy
Declared(p) == p # ""

(***************************************************************************)
(* Map<K, V>: a sequence of entries in insertion order.  set() on a key    *)
(* the map has keeps the key's position.                                   *)
(***************************************************************************)
MapHas(m, key) == \E i \in 1..Len(m) : m[i].key = key

MapGet(m, key) ==
    IF MapHas(m, key)
    THEN m[CHOOSE i \in 1..Len(m) : m[i].key = key].val
    ELSE Undefined

MapSet(m, key, val) ==
    IF MapHas(m, key)
    THEN [i \in 1..Len(m) |-> IF m[i].key = key THEN [key |-> key, val |-> val] ELSE m[i]]
    ELSE Append(m, [key |-> key, val |-> val])

MapKeys(m) == {m[i].key : i \in 1..Len(m)}

(***************************************************************************)
(* What the reader returns for a file, and fetchAndParseJSON.              *)
(***************************************************************************)
Absent == [t |-> "absent"]

EmptyText == [t |-> "empty"]

Garbage == [t |-> "garbage"]

JsonText(v) == [t |-> "json", v |-> v]

\* content: what reader.readFileAsText returned
fetchAndParseJSON(content) ==
    IF content.t \in {"absent", "empty"}
    THEN Undefined                       \* if (content) fails
    ELSE IF content.t = "garbage"
         THEN Undefined                  \* JSON.parse throws, caught and logged
         ELSE content.v

(***************************************************************************)
(* The study directory.  The data files are fixed; the replications folder *)
(* (its listing and the manifests in it) is what each discovery finds, and *)
(* is drawn anew by every discovery call.                                  *)
(***************************************************************************)
EntityPath(type, clocks) == [type |-> type, path |-> clocks]

Entry(key, val) == [key |-> key, val |-> val]

\* an EntityPathBatch: Object.entries order is the order in the file
Batch(entries) == [k |-> "obj", entries |-> entries]

Batch1 == Batch(<<Entry("e1", EntityPath("Customer", <<0, 4>>)),
                  Entry("e2", EntityPath("Truck", <<1, 5>>))>>)

Batch2 == Batch(<<Entry("e2", EntityPath("Customer", <<2, 6>>)),
                  Entry("e3", EntityPath("Customer", <<3, 7>>))>>)

Point(time, value) == [time |-> time, value |-> value]

StatMeta(type, componentId, metricName) ==
    [k |-> "obj", type |-> type, componentId |-> componentId, metricName |-> metricName]

StatFile(metadata, mean, series) ==
    [k |-> "obj", metadata |-> metadata, summary |-> [mean |-> mean], timeSeries |-> series]

Stat1 == StatFile(StatMeta("activity_metric", "act1", "queueLength"), 15,
                  <<Point(0, 10), Point(10, 20)>>)

\* declares the same (type, componentId, metricName) as Stat1
Stat2 == StatFile(StatMeta("activity_metric", "act1", "queueLength"), 3,
                  <<Point(0, 2), Point(10, 4)>>)

Stat3 == StatFile(StatMeta("resource_metric", "res1", "utilization"), 1,
                  <<Point(5, 1)>>)

\* parses, but is not a StatisticsFile: it has no metadata
StatNoMeta == StatFile(Undefined, 0, <<>>)

Doc(name) == [k |-> "obj", simulationId |-> name]

FileSystem ==
    [p \in {"b1.json", "b2.json", "bBad.json",
            "s1.json", "s2.json", "s3.json", "sNoMeta.json", "sEmpty.json",
            "layoutA.json", "layoutB.json", "configA.json", "configB.json", "configBad.json"} |->
        CASE p = "b1.json" -> JsonText(Batch1)
          [] p = "b2.json" -> JsonText(Batch2)
          [] p = "bBad.json" -> Garbage
          [] p = "s1.json" -> JsonText(Stat1)
          [] p = "s2.json" -> JsonText(Stat2)
          [] p = "s3.json" -> JsonText(Stat3)
          [] p = "sNoMeta.json" -> JsonText(StatNoMeta)
          [] p = "sEmpty.json" -> EmptyText
          [] p = "layoutA.json" -> JsonText(Doc("layoutA"))
          [] p = "layoutB.json" -> JsonText(Doc("layoutB"))
          [] p = "configA.json" -> JsonText(Doc("configA"))
          [] p = "configB.json" -> JsonText(Doc("configB"))
          [] p = "configBad.json" -> Garbage]

\* NodeFileReader.readFileAsText: undefined for a file that cannot be read
readFileAsText(path) ==
    IF path \in DOMAIN FileSystem THEN FileSystem[path] ELSE Absent

ManifestMetadata(replication, layoutPath, configPath) ==
    [k |-> "obj", replication |-> Num(replication),
     modelLayoutPath |-> layoutPath, sharedVisualConfigPath |-> configPath]

Manifest(metadata, entityFiles, statFiles) ==
    [k |-> "obj", metadata |-> metadata,
     entityPathDataFiles |-> entityFiles, statisticsDataFiles |-> statFiles]

Refs(paths) == Arr([i \in 1..Len(paths) |-> [filePath |-> paths[i]]])

\* the well-formed manifests a replication folder may hold
ManifestA == Manifest(ManifestMetadata(1, "layoutA.json", "configA.json"),
                      Refs(<<"b1.json", "b2.json">>), Refs(<<"s1.json", "s2.json">>))

ManifestB == Manifest(ManifestMetadata(2, "layoutB.json", "configB.json"),
                      Refs(<<"b2.json", "bGone.json", "b1.json">>),
                      Refs(<<"s3.json", "sEmpty.json">>))

\* lists the same file path more than once; its layout file cannot be read
ManifestC == Manifest(ManifestMetadata(1, "layoutGone.json", ""),
                      Refs(<<"bBad.json", "b1.json", "bBad.json", "b1.json">>),
                      Refs(<<"s1.json", "s1.json">>))

ManifestD == Manifest(ManifestMetadata(2, "", "configBad.json"),
                      Refs(<<>>), Refs(<<"sNoMeta.json", "s3.json">>))

\* parse, but do not have the structure of a manifest
ManifestNoLists == Manifest(ManifestMetadata(2, "layoutA.json", "configA.json"),
                            Undefined, Undefined)

ManifestNoMetadata == Manifest(Undefined, Refs(<<"b1.json">>), Refs(<<"s1.json">>))

WellFormedManifests == {ManifestA, ManifestB, ManifestC, ManifestD}

ManifestFileContents ==
    {Absent, Garbage, JsonText(JNull), JsonText(ManifestNoMetadata), JsonText(ManifestNoLists)}
        \cup {JsonText(m) : m \in WellFormedManifests}

\* a FileListItem; the name is held as its first four characters and the rest
Item(prefix, rest, isDirectory) ==
    [name |-> [prefix |-> prefix, rest |-> rest], isDirectory |-> isDirectory]

NameText(name) == name.prefix \o name.rest

\* item.name.startsWith('rep_')
StartsWithRep(name) == name.prefix = "rep_"

Items == {Item("rep_", "001", TRUE), Item("rep_", "002", TRUE),
          Item("rep_", "003", FALSE), Item("note", "s", TRUE)}

\* the listings of at most MaxListing entries, no name twice
Listings ==
    UNION {{s \in [1..n -> Items] : \A i, j \in 1..n : i # j => s[i] # s[j]} : n \in 0..MaxListing}

ReplicationIds == {Num(1), Num(2), Num(3)}

(***************************************************************************)
(* The state of one instance.                                              *)
(***************************************************************************)
Idle == [op |-> "idle"]

NoReturn == [op |-> "none"]

NoSnapshot == [taken |-> FALSE]

Init ==
    /\ variant \in {"AnimationData", "LoaderCopy"}
    /\ availableReplications = <<>>
    /\ modelLayout = Undefined
    /\ sharedVisualConfig = Undefined
    /\ activeReplicationId = Undefined
    /\ loadedEntityPathBatches = <<>>
    /\ entityPathsById = <<>>
    /\ loadedStatisticsFiles = <<>>
    /\ call = Idle
    /\ ret = NoReturn
    /\ reads = <<>>
    /\ before = NoSnapshot

\* the fields an activation works on, as one record
Cur ==
    [active |-> activeReplicationId, batches |-> loadedEntityPathBatches,
     index |-> entityPathsById, stats |-> loadedStatisticsFiles,
     call |-> call, ret |-> ret, reads |-> reads]

Become(st) ==
    /\ activeReplicationId' = st.active
    /\ loadedEntityPathBatches' = st.batches
    /\ entityPathsById' = st.index
    /\ loadedStatisticsFiles' = st.stats
    /\ call' = st.call
    /\ ret' = st.ret
    /\ reads' = st.reads

(***************************************************************************)
(* setActiveReplication and the loaders it calls.                          *)
(***************************************************************************)
\* return true
ReturnTrue(st) ==
    [st EXCEPT !.call = Idle,
               !.ret = [op |-> "activate", id |-> st.call.id, val |-> "true"]]

\* a TypeError leaves the call: the promise setActiveReplication returned is rejected
Raise(st) ==
    [st EXCEPT !.call = Idle,
               !.ret = [op |-> "activate", id |-> st.call.id, val |-> "raised"]]

\* the statistics files of the LoaderCopy, one after the other, from the j-th on:
\* loadStatisticsFile returns at once for a path the cache has, and otherwise
\* suspends on the read of the file
RECURSIVE StatLoop(_, _)
StatLoop(st, j) ==
    LET files == st.call.manifest.statisticsDataFiles.items IN
    IF j > Len(files)
    THEN ReturnTrue(st)
    ELSE IF MapHas(st.stats, files[j].filePath)
         THEN StatLoop(st, j + 1)
         ELSE [st EXCEPT !.call.stage = "stats", !.call.i = j,
                         !.reads = Append(@, files[j].filePath)]

\* the reads loadAllStatisticsFiles issues: files.map calls loadStatisticsFile on
\* every file before any read completes
RECURSIVE IssueAll(_, _, _)
IssueAll(st, files, j) ==
    IF j > Len(files)
    THEN st
    ELSE IF MapHas(st.stats, files[j].filePath)
         THEN IssueAll(st, files, j + 1)
         ELSE IssueAll([st EXCEPT !.call.pending = @ \cup {j},
                                  !.reads = Append(@, files[j].filePath)],
                       files, j + 1)

loadAllStatisticsFiles(st) ==
    LET files == st.call.manifest.statisticsDataFiles.items
        issued == IssueAll([st EXCEPT !.call.stage = "stats"], files, 1)
    IN  IF issued.call.pending = {} THEN ReturnTrue(issued) ELSE issued

\* what follows the loop over the entity-path files
EnterStatistics(st) ==
    IF ~Truthy(st.call.manifest.statisticsDataFiles)
    THEN Raise(st)             \* files.map / for..of on undefined
    ELSE IF variant = "AnimationData"
         THEN loadAllStatisticsFiles(st)
         ELSE StatLoop(st, 1)

\* the loop over manifest.entityPathDataFiles from the i-th file on
RECURSIVE EntityLoop(_, _)
EntityLoop(st, i) ==
    LET files == st.call.manifest.entityPathDataFiles.items IN
    IF i > Len(files)
    THEN EnterStatistics(st)
    ELSE IF MapHas(st.batches, files[i].filePath)
         THEN EntityLoop(st, i + 1)
         ELSE [st EXCEPT !.call.stage = "entities", !.call.i = i,
                         !.reads = Append(@, files[i].filePath)]

\* a variant of IndexEntries that keeps the entry the index has for an ID
RECURSIVE IndexEntriesKeepFirst(_, _)
IndexEntriesKeepFirst(index, entries) ==
    IF entries = <<>>
    THEN index
    ELSE IndexEntriesKeepFirst(IF MapHas(index, Head(entries).key)
                               THEN index
                               ELSE MapSet(index, Head(entries).key, Head(entries).val),
                               Tail(entries))

\* for (const [id, path] of Object.entries(batch)) this.entityPathsById.set(id, path)
RECURSIVE IndexEntries(_, _)
IndexEntries(index, entries) ==
    IF entries = <<>>
    THEN index
    ELSE IndexEntries(MapSet(index, Head(entries).key, Head(entries).val), Tail(entries))

\* a variant of StoreBatch that puts the entries of the batch in the place of
\* the index
StoreBatchAlone(st, path, batch) ==
    IF ~Truthy(batch)
    THEN st
    ELSE [st EXCEPT !.batches = MapSet(@, path, batch),
                    !.index = IndexEntries(<<>>, batch.entries)]

\* loadEntityPathBatch after its read: batch is what fetchAndParseJSON returned
StoreBatch(st, path, batch) ==
    IF ~Truthy(batch)
    THEN st
    ELSE [st EXCEPT !.batches = MapSet(@, path, batch),
                    !.index = IndexEntries(@, batch.entries)]

\* a variant of StoreStatistics that writes back the cache as the load found it
\* when it was issued, with its own file added: the files stored meanwhile are lost
StoreStatisticsAlone(st, path, statFile) ==
    IF Truthy(statFile)
    THEN [st EXCEPT !.stats = <<Entry(path, statFile)>>]
    ELSE st

\* loadStatisticsFile after its read
StoreStatistics(st, path, statFile) ==
    IF Truthy(statFile)
    THEN [st EXCEPT !.stats = MapSet(@, path, statFile)]
    ELSE st

\* a variant of ClearCaches that leaves the entity index as it is
ClearCachesKeepIndex(st) ==
    [st EXCEPT !.batches = <<>>,
               !.stats = IF variant = "AnimationData" THEN <<>> ELSE @]

\* the caches after the clear() calls of setActiveReplication
ClearCaches(st) ==
    [st EXCEPT !.batches = <<>>,
               !.index = <<>>,
               !.stats = IF variant = "AnimationData" THEN <<>> ELSE @]

\* a variant of ReturnFalse in which the lookup of the manifest comes after the
\* assignment of the active ID and the clearing of the caches
ReturnFalseAfterClear(st, replicationId) ==
    [ClearCaches(st) EXCEPT
        !.active = replicationId,
        !.ret = [op |-> "activate", id |-> replicationId, val |-> "false"],
        !.reads = <<>>]

\* if (!manifest) return false
ReturnFalse(st, replicationId) ==
    [st EXCEPT !.ret = [op |-> "activate", id |-> replicationId, val |-> "false"],
               !.reads = <<>>]

\* setActiveReplication(replicationId) up to its first suspension
Activate(st, replicationId) ==
    LET manifest == MapGet(availableReplications, replicationId) IN
    IF ~Truthy(manifest)
    THEN ReturnFalse(st, replicationId)
    ELSE LET started == [ClearCaches(st) EXCEPT
                            !.active = replicationId,
                            !.reads = <<>>,
                            !.ret = NoReturn,
                            !.call = [op |-> "activate", id |-> replicationId,
                                      manifest |-> manifest, stage |-> "entities",
                                      i |-> 0, pending |-> {}]]
         IN  IF ~Truthy(manifest.entityPathDataFiles)
             THEN Raise(started)        \* for..of on undefined
             ELSE EntityLoop(started, 1)

\* what the call before this one left, when that call was an activation that
\* returned true
Snapshot ==
    IF ret.op = "activate" /\ ret.val = "true"
    THEN [taken |-> TRUE, id |-> ret.id, index |-> entityPathsById,
          stats |-> loadedStatisticsFiles]
    ELSE NoSnapshot

setActiveReplication(replicationId) ==
    /\ call = Idle
    /\ Become(Activate(Cur, replicationId))
    /\ before' = Snapshot
    /\ UNCHANGED <<variant, availableReplications, modelLayout, sharedVisualConfig>>

\* the read of the i-th entity-path file completes
CompleteBatchRead ==
    /\ call.op = "activate"
    /\ call.stage = "entities"
    /\ LET path == call.manifest.entityPathDataFiles.items[call.i].filePath
           batch == fetchAndParseJSON(readFileAsText(path))
       IN  Become(EntityLoop(StoreBatch(Cur, path, batch), call.i + 1))
    /\ UNCHANGED <<variant, availableReplications, modelLayout, sharedVisualConfig, before>>

\* the statistics files whose reads are in flight
Pending == IF call.op = "activate" THEN call.pending ELSE {}

\* AnimationData: the read of one of the statistics files in flight completes
CompleteStatisticsRead(j) ==
    /\ call.op = "activate"
    /\ call.stage = "stats"
    /\ variant = "AnimationData"
    /\ j \in call.pending
    /\ LET path == call.manifest.statisticsDataFiles.items[j].filePath
           statFile == fetchAndParseJSON(readFileAsText(path))
           stored == StoreStatistics([Cur EXCEPT !.call.pending = @ \ {j}], path, statFile)
       IN  Become(IF stored.call.pending = {} THEN ReturnTrue(stored) ELSE stored)
    /\ UNCHANGED <<variant, availableReplications, modelLayout, sharedVisualConfig, before>>

\* LoaderCopy: the read of the i-th statistics file completes
CompleteStatisticsReadInOrder ==
    /\ call.op = "activate"
    /\ call.stage = "stats"
    /\ variant = "LoaderCopy"
    /\ LET path == call.manifest.statisticsDataFiles.items[call.i].filePath
           statFile == fetchAndParseJSON(readFileAsText(path))
       IN  Become(StatLoop(StoreStatistics(Cur, path, statFile), call.i + 1))
    /\ UNCHANGED <<variant, availableReplications, modelLayout, sharedVisualConfig, before>>

(***************************************************************************)
(* initializeOrDiscoverReplications.                                       *)
(***************************************************************************)
ManifestPath(name) ==
    "replications/" \o NameText(name) \o "/animation_manifest_" \o NameText(name) \o ".json"

\* if (!item.isDirectory || !item.name.startsWith('rep_')) continue
Skipped(item) == ~item.isDirectory \/ ~StartsWithRep(item.name)

\* the items from the first one on whose manifest is read
RECURSIVE SkipItems(_)
SkipItems(items) ==
    IF items # <<>> /\ Skipped(Head(items)) THEN SkipItems(Tail(items)) ELSE items

\* a variant of Register that adds an entry whatever the registry holds
RegisterAppend(registry, manifest) ==
    Append(registry, [key |-> manifest.metadata.replication, val |-> manifest])

\* a variant of Register that drops what the registry holds
RegisterAlone(registry, manifest) ==
    <<[key |-> manifest.metadata.replication, val |-> manifest]>>

\* this.availableReplications.set(manifest.metadata.replication, manifest)
Register(registry, manifest) ==
    MapSet(registry, manifest.metadata.replication, manifest)

\* a variant of FetchesLayout without the test of this.modelLayout
FetchesLayoutAlways(layout, manifest) ==
    Declared(manifest.metadata.modelLayoutPath)

\* if (!this.modelLayout && manifest.metadata.modelLayoutPath)
FetchesLayout(layout, manifest) ==
    ~Truthy(layout) /\ Declared(manifest.metadata.modelLayoutPath)

\* if (!this.sharedVisualConfig && manifest.metadata.sharedVisualConfigPath)
FetchesConfig(config, manifest) ==
    ~Truthy(config) /\ Declared(manifest.metadata.sharedVisualConfigPath)

\* one turn of the loop for an item that is read; content is what the reader
\* returned for its manifest file
DiscoverOne(d, item, content) ==
    LET manifest == fetchAndParseJSON(content)
        read == [d EXCEPT !.reads = Append(@, ManifestPath(item.name))]
    IN  IF ~Truthy(manifest)
        THEN read
        ELSE IF ~Truthy(manifest.metadata)
             THEN [read EXCEPT !.raised = TRUE]   \* manifest.metadata.replication
             ELSE LET reg == [read EXCEPT !.registry = Register(@, manifest)]
                      lay == IF FetchesLayout(reg.layout, manifest)
                             THEN [reg EXCEPT
                                     !.reads = Append(@, manifest.metadata.modelLayoutPath),
                                     !.layout = fetchAndParseJSON(
                                         readFileAsText(manifest.metadata.modelLayoutPath))]
                             ELSE reg
                  IN  IF FetchesConfig(lay.config, manifest)
                      THEN [lay EXCEPT
                              !.reads = Append(@, manifest.metadata.sharedVisualConfigPath),
                              !.config = fetchAndParseJSON(
                                  readFileAsText(manifest.metadata.sharedVisualConfigPath))]
                      ELSE lay

\* what a finished discovery leaves in ret: how the call ended, and whether the
\* reader had returned a listing
DiscoveryReturned(val, listed) == [op |-> "discover", val |-> val, listed |-> listed]

\* a variant of initializeOrDiscoverReplications without the test of the listing:
\* for..of on undefined throws
DiscoverUnguarded(replicationItems) ==
    /\ call = Idle
    /\ reads' = <<>>
    /\ IF ~Truthy(replicationItems)
       THEN /\ call' = Idle
            /\ ret' = DiscoveryReturned("raised", FALSE)
       ELSE IF SkipItems(replicationItems.items) = <<>>
            THEN /\ call' = Idle
                 /\ ret' = DiscoveryReturned("void", TRUE)
            ELSE /\ call' = [op |-> "discover", items |-> SkipItems(replicationItems.items)]
                 /\ ret' = NoReturn
    /\ before' = NoSnapshot
    /\ UNCHANGED <<variant, availableReplications, modelLayout, sharedVisualConfig,
                   activeReplicationId, loadedEntityPathBatches, entityPathsById,
                   loadedStatisticsFiles>>

\* the call is invoked and the reader returns the listing (undefined when the
\* directory cannot be listed)
initializeOrDiscoverReplications(replicationItems) ==
    /\ call = Idle
    /\ reads' = <<>>
    /\ IF ~Truthy(replicationItems) \/ SkipItems(replicationItems.items) = <<>>
       THEN /\ call' = Idle
            /\ ret' = DiscoveryReturned("void", Truthy(replicationItems))
       ELSE /\ call' = [op |-> "discover", items |-> SkipItems(replicationItems.items)]
            /\ ret' = NoReturn
    /\ before' = NoSnapshot
    /\ UNCHANGED <<variant, availableReplications, modelLayout, sharedVisualConfig,
                   activeReplicationId, loadedEntityPathBatches, entityPathsById,
                   loadedStatisticsFiles>>

\* the read of the manifest of the first item left completes; the loop runs on
\* to the next manifest read or to its end
DiscoverManifest(content) ==
    /\ call.op = "discover"
    /\ LET d == DiscoverOne([registry |-> availableReplications, layout |-> modelLayout,
                             config |-> sharedVisualConfig, reads |-> reads,
                             raised |-> FALSE],
                            Head(call.items), content)
           rest == SkipItems(Tail(call.items))
       IN  /\ availableReplications' = d.registry
           /\ modelLayout' = d.layout
           /\ sharedVisualConfig' = d.config
           /\ reads' = d.reads
           /\ IF d.raised
              THEN /\ call' = Idle
                   /\ ret' = DiscoveryReturned("raised", TRUE)
              ELSE IF rest = <<>>
                   THEN /\ call' = Idle
                        /\ ret' = DiscoveryReturned("void", TRUE)
                   ELSE /\ call' = [op |-> "discover", items |-> rest]
                        /\ ret' = ret
    /\ UNCHANGED <<variant, activeReplicationId, loadedEntityPathBatches, entityPathsById,
                   loadedStatisticsFiles, before>>

(***************************************************************************)
(* A caller that puts a manifest into the registry itself (the registry is *)
(* a public field), as runTest does with the manifest it has read.         *)
(***************************************************************************)
\* x ?? []
OrEmpty(list) == IF Truthy(list) THEN list ELSE Arr(<<>>)

\* manifestData.metadata.replication ?? 1
DirectKey(manifestData) ==
    IF Truthy(manifestData.metadata.replication)
    THEN manifestData.metadata.replication
    ELSE Num(1)

\* the replicationData runTest builds from the manifest it has parsed
DirectData(manifestData) ==
    Manifest(manifestData.metadata,
             OrEmpty(manifestData.entityPathDataFiles),
             OrEmpty(manifestData.statisticsDataFiles))

\* the manifests a caller reads and registers
DirectManifests == WellFormedManifests

\* animData.availableReplications.set(replicationId, replicationData)
RegisterDirectly(manifestData) ==
    /\ call = Idle
    /\ availableReplications' =
           MapSet(availableReplications, DirectKey(manifestData), DirectData(manifestData))
    /\ ret' = [op |-> "register"]
    /\ reads' = <<>>
    /\ before' = NoSnapshot
    /\ UNCHANGED <<variant, modelLayout, sharedVisualConfig, activeReplicationId,
                   loadedEntityPathBatches, entityPathsById, loadedStatisticsFiles, call>>

(***************************************************************************)
(* The queries.                                                            *)
(***************************************************************************)
\* what a query yields when it throws
Raised == [k |-> "raised"]

\* the loop of getStatistic over the values of a statistics cache
RECURSIVE FindStatistic(_, _, _, _)
FindStatistic(files, type, componentId, metricName) ==
    IF files = <<>>
    THEN Undefined
    ELSE LET file == Head(files).val IN
         IF ~Truthy(file.metadata)
         THEN Raised                     \* file.metadata.type on undefined
         ELSE IF /\ file.metadata.type = type
                 /\ file.metadata.metricName = metricName
                 /\ file.metadata.componentId = componentId
              THEN file
              ELSE FindStatistic(Tail(files), type, componentId, metricName)

getStatistic(type, componentId, metricName) ==
    FindStatistic(loadedStatisticsFiles, type, componentId, metricName)

getLoadedEntityIds == MapKeys(entityPathsById)

getActiveReplicationId == activeReplicationId

\* availableReplications.get(activeReplicationId)?.metadata
getActiveReplicationMetadata ==
    IF activeReplicationId = Undefined
    THEN Undefined
    ELSE LET manifest == MapGet(availableReplications, activeReplicationId) IN
         IF Truthy(manifest) THEN manifest.metadata ELSE Undefined

\* the (type, componentId, metricName) triples asked for
StatisticKeys ==
    {<<"activity_metric", "act1", "queueLength">>,
     <<"resource_metric", "res1", "utilization">>,
     <<"resource_metric", "act1", "queueLength">>}

\* getStatistic(...)?.summary
getStatisticSummary(type, componentId, metricName) ==
    LET stat == getStatistic(type, componentId, metricName) IN
    IF stat = Raised
    THEN Raised
    ELSE IF Truthy(stat) THEN stat.summary ELSE Undefined

(***************************************************************************)
(* The numbers getStatisticValueAtTime computes with.  A number is held as *)
(* a fraction in lowest terms; the rounding of the floating-point          *)
(* operations is not modelled.                                             *)
(***************************************************************************)
NaN == [k |-> "NaN"]

Abs(n) == IF n < 0 THEN -n ELSE n

RECURSIVE GCD(_, _)
GCD(a, b) == IF b = 0 THEN a ELSE GCD(b, a % b)

\* the number n / d, d # 0
Fraction(n, d) ==
    LET g == GCD(Abs(n), Abs(d))
        sign == IF d < 0 THEN -1 ELSE 1
    IN  [k |-> "number", num |-> (sign * n) \div g, den |-> (sign * d) \div g]

Number(n) == Fraction(n, 1)

\* n / d on integers: 0 / 0 is NaN (the test of the bracket leaves d = 0 only
\* together with n = 0)
Divide(n, d) == IF d = 0 THEN NaN ELSE Fraction(n, d)

Times(x, y) ==
    IF x = NaN \/ y = NaN THEN NaN ELSE Fraction(x.num * y.num, x.den * y.den)

Plus(x, y) ==
    IF x = NaN \/ y = NaN
    THEN NaN
    ELSE Fraction(x.num * y.den + y.num * x.den, x.den * y.den)

\* points[i].time <= time && points[i + 1].time >= time
Bracket(points, i, time) ==
    points[i].time <= time /\ points[i + 1].time >= time

\* the loop of getStatisticValueAtTime from the i-th point on (the first point is
\* points[1])
RECURSIVE Interpolate(_, _, _)
Interpolate(points, i, time) ==
    IF i > Len(points) - 1
    THEN Undefined
    ELSE IF Bracket(points, i, time)
         THEN LET ratio == Divide(time - points[i].time,
                                  points[i + 1].time - points[i].time)
              IN  Plus(Number(points[i].value),
                       Times(ratio, Number(points[i + 1].value - points[i].value)))
         ELSE Interpolate(points, i + 1, time)

getStatisticValueAtTime(type, componentId, metricName, time) ==
    LET stat == getStatistic(type, componentId, metricName) IN
    IF stat = Raised
    THEN Raised
    ELSE IF ~Truthy(stat)
         THEN Undefined
         ELSE Interpolate(stat.timeSeries, 1, time)

\* point.time >= start && point.time <= end
InRange(point, start, end) == point.time >= start /\ point.time <= end

getStatisticTimeSeriesForRange(type, componentId, metricName, start, end) ==
    LET stat == getStatistic(type, componentId, metricName) IN
    IF stat = Raised
    THEN Raised
    ELSE IF ~Truthy(stat)
         THEN Arr(<<>>)
         ELSE Arr(SelectSeq(stat.timeSeries, LAMBDA point : InRange(point, start, end)))

\* a variant of KeepsEntity with the test inverted
KeepsEntityOfOtherType(entry, type) == entry.val.type # type

\* if (path.type === type)
KeepsEntity(entry, type) == entry.val.type = type

\* the loop of getEntitiesByType over the entries of an index, from result on
RECURSIVE FilterByType(_, _, _)
FilterByType(entries, type, result) ==
    IF entries = <<>>
    THEN result
    ELSE FilterByType(Tail(entries), type,
                      IF KeepsEntity(Head(entries), type)
                      THEN MapSet(result, Head(entries).key, Head(entries).val)
                      ELSE result)

getEntitiesByType(type) == FilterByType(entityPathsById, type, <<>>)

(***************************************************************************)
(* getEntityPath.  A batch is an object JSON.parse has made, so that        *)
(* batch[entityId] yields the entry of the batch for an ID the batch       *)
(* holds, and for any other name what Object.prototype has under it.       *)
(***************************************************************************)
\* the function an object inherits under a name of Object.prototype
Inherited(name) == [k |-> "function", name |-> name]

\* the names of Object.prototype among the entity IDs asked for
ObjectPrototypeNames == {"toString"}

\* batch[entityId]
GetProperty(batch, entityId) ==
    IF MapHas(batch.entries, entityId)
    THEN MapGet(batch.entries, entityId)
    ELSE IF entityId \in ObjectPrototypeNames
         THEN Inherited(entityId)
         ELSE Undefined

\* what a finished getEntityPath leaves in ret
Got(entityId, val) == [op |-> "getEntityPath", id |-> entityId, val |-> val]

\* return this.entityPathsById.get(entityId)
Lookup(st, entityId) == [st EXCEPT !.ret = Got(entityId, MapGet(st.index, entityId))]

\* the loop over loadedEntityPathBatches from the i-th batch on; an entity
\* path and an inherited function are truthy
RECURSIVE ScanBatches(_, _, _)
ScanBatches(st, entityId, i) ==
    IF i > Len(st.batches)
    THEN [st EXCEPT !.ret = Got(entityId, Undefined)]
    ELSE LET found == GetProperty(st.batches[i].val, entityId) IN
         IF found # Undefined
         THEN [st EXCEPT !.index = MapSet(@, entityId, found),
                         !.ret = Got(entityId, found)]
         ELSE ScanBatches(st, entityId, i + 1)

\* AnimationData: the lookup in the index, and the scan of the batches for an
\* ID the index does not have.  LoaderCopy: the lookup alone.
EntityPathOf(st, entityId) ==
    IF variant = "LoaderCopy" \/ MapHas(st.index, entityId)
    THEN Lookup(st, entityId)
    ELSE ScanBatches(st, entityId, 1)

\* the entity IDs asked for
AskedEntityIds == {"e1", "e9", "toString"}

getEntityPath(entityId) ==
    /\ call = Idle
    /\ LET st == EntityPathOf(Cur, entityId)
       IN  /\ entityPathsById' = st.index
           /\ ret' = st.ret
    /\ reads' = <<>>
    /\ before' = NoSnapshot
    /\ UNCHANGED <<variant, availableReplications, modelLayout, sharedVisualConfig,
                   activeReplicationId, loadedEntityPathBatches, loadedStatisticsFiles,
                   call>>

(***************************************************************************)
(* The specification: the caller awaits each call before the next one.     *)
(***************************************************************************)
Next ==
    \/ \E listing \in Listings : initializeOrDiscoverReplications(Arr(listing))
    \/ initializeOrDiscoverReplications(Undefined)
    \/ \E content \in ManifestFileContents : DiscoverManifest(content)
    \/ \E manifestData \in DirectManifests : RegisterDirectly(manifestData)
    \/ \E id \in ReplicationIds : setActiveReplication(id)
    \/ \E entityId \in AskedEntityIds : getEntityPath(entityId)
    \/ CompleteBatchRead
    \/ \E j \in Pending : CompleteStatisticsRead(j)
    \/ CompleteStatisticsReadInOrder

Spec == Init /\ [][Next]_vars

(***************************************************************************)
(* The queries on their own: an instance whose caches hold some statistics *)
(* files, or some entities, answers one query.  The queries read the       *)
(* statistics cache and the entity index only; the other fields are left   *)
(* as the constructor sets them.  The queries are the same text in both    *)
(* copies of the class.                                                    *)
(***************************************************************************)
MaxPoints == 3

MaxTime == 2

MaxEntities == 2

SampleTimes == 0..MaxTime

SampleValues == {10, 13}

\* the time series of at most MaxPoints samples, ascending in time (the data
\* model has timeSeries ordered by time); equal times may follow one another
TimeSeriesSet ==
    UNION {{series \in [1..n -> {Point(t, v) : t \in SampleTimes, v \in SampleValues}] :
               \A i \in 1..(n - 1) : series[i].time <= series[i + 1].time} : n \in 0..MaxPoints}

\* a statistics file with the identity of Stat1 and a series of its own
Measured(series) == StatFile(Stat1.metadata, 0, series)

\* the statistics caches the queries are asked on
QueryCaches ==
    {<<>>} \cup
    UNION {{<<Entry("q.json", Measured(series))>>,
            <<Entry("q.json", Measured(series)), Entry("s1.json", Stat1)>>,
            <<Entry("s1.json", Stat1), Entry("q.json", Measured(series))>>,
            <<Entry("s3.json", Stat3), Entry("q.json", Measured(series))>>,
            <<Entry("sNoMeta.json", StatNoMeta), Entry("q.json", Measured(series))>>} :
           series \in TimeSeriesSet}

EntityIds == {"e1", "e2", "e3"}

EntityTypes == {"Customer", "Truck"}

\* the entity indexes of at most MaxEntities entities
QueryIndexes ==
    UNION {{index \in [1..n -> {Entry(id, EntityPath(type, <<0, 4>>)) :
                                   id \in EntityIds, type \in EntityTypes}] :
               \A i, j \in 1..n : index[i].key = index[j].key => i = j} : n \in 1..MaxEntities}

\* the times asked for: around the drawn samples, and the 5 and 11 of the
\* series [(0,10),(10,20)]
QueryTimes == (-1..(MaxTime + 1)) \cup {5, 11}

\* the bounds of the ranges asked for
RangeTimes == -1..(MaxTime + 1)

QueryTypes == EntityTypes \cup {"Bus"}

InitQuery ==
    /\ variant \in {"AnimationData", "LoaderCopy"}
    /\ availableReplications = <<>>
    /\ modelLayout = Undefined
    /\ sharedVisualConfig = Undefined
    /\ activeReplicationId = Undefined
    /\ loadedEntityPathBatches = <<>>
    /\ \/ loadedStatisticsFiles \in QueryCaches /\ entityPathsById = <<>>
       \/ loadedStatisticsFiles = <<>> /\ entityPathsById \in QueryIndexes
    /\ call = Idle
    /\ ret = NoReturn
    /\ reads = <<>>
    /\ before = NoSnapshot

\* the fields a query leaves alone: the queries assign no field of the instance
Unassigned ==
    <<variant, availableReplications, modelLayout, sharedVisualConfig,
      activeReplicationId, loadedEntityPathBatches, entityPathsById,
      loadedStatisticsFiles, call, reads, before>>

AskStatistic ==
    /\ call = Idle
    /\ ret = NoReturn
    /\ \E q \in StatisticKeys :
          ret' = [op |-> "getStatistic", key |-> q, val |-> getStatistic(q[1], q[2], q[3])]
    /\ UNCHANGED Unassigned

AskStatisticSummary ==
    /\ call = Idle
    /\ ret = NoReturn
    /\ \E q \in StatisticKeys :
          ret' = [op |-> "getStatisticSummary", key |-> q,
                  val |-> getStatisticSummary(q[1], q[2], q[3])]
    /\ UNCHANGED Unassigned

AskStatisticValueAtTime ==
    /\ call = Idle
    /\ ret = NoReturn
    /\ \E q \in StatisticKeys, time \in QueryTimes :
          ret' = [op |-> "getStatisticValueAtTime", key |-> q, time |-> time,
                  val |-> getStatisticValueAtTime(q[1], q[2], q[3], time)]
    /\ UNCHANGED Unassigned

AskStatisticTimeSeriesForRange ==
    /\ call = Idle
    /\ ret = NoReturn
    /\ \E q \in StatisticKeys, start \in RangeTimes, end \in RangeTimes :
          ret' = [op |-> "getStatisticTimeSeriesForRange", key |-> q,
                  start |-> start, end |-> end,
                  val |-> getStatisticTimeSeriesForRange(q[1], q[2], q[3], start, end)]
    /\ UNCHANGED Unassigned

AskEntitiesByType ==
    /\ call = Idle
    /\ ret = NoReturn
    /\ \E type \in QueryTypes :
          ret' = [op |-> "getEntitiesByType", type |-> type, val |-> getEntitiesByType(type)]
    /\ UNCHANGED Unassigned

QueryNext ==
    \/ AskStatistic
    \/ AskStatisticSummary
    \/ AskStatisticValueAtTime
    \/ AskStatisticTimeSeriesForRange
    \/ AskEntitiesByType

QuerySpec == InitQuery /\ [][QueryNext]_vars

(***************************************************************************)
(* The loading of entity-path batches on its own: loadEntityPathBatch is   *)
(* called once for each file of a list, in whatever order, on an instance  *)
(* whose caches are clear.  What the reader returns for each file is drawn *)
(* with the list.  loadEntityPathBatch is the same text in both copies of  *)
(* the class.                                                              *)
(***************************************************************************)
MaxBatches == 3

BatchPath(j) == "m" \o ToString(j) \o ".json"

\* Object.entries order: the order of the IDs in the file
IdOrder == <<"e1", "e2", "e3">>

\* the batch of the j-th file that holds the entities ids; each entity's path
\* tells the file it is from
BatchOf(ids, j) ==
    LET held == SelectSeq(IdOrder, LAMBDA id : id \in ids)
    IN  Batch([i \in 1..Len(held) |-> Entry(held[i], EntityPath("Customer", <<j>>))])

\* what the reader returns for the j-th file: nothing, or the text of a batch
BatchFileContents(j) == {Absent} \cup {JsonText(BatchOf(ids, j)) : ids \in SUBSET EntityIds}

\* the lists of n files: the j-th file has the path BatchPath(j)
RECURSIVE BatchFileListsOf(_)
BatchFileListsOf(n) ==
    IF n = 0
    THEN {<<>>}
    ELSE {Append(files, [filePath |-> BatchPath(n), content |-> content]) :
             files \in BatchFileListsOf(n - 1), content \in BatchFileContents(n)}

\* the lists of at most MaxBatches files
BatchFileLists == UNION {BatchFileListsOf(n) : n \in 0..MaxBatches}

InitMerge ==
    /\ variant \in {"AnimationData", "LoaderCopy"}
    /\ availableReplications = <<>>
    /\ modelLayout = Undefined
    /\ sharedVisualConfig = Undefined
    /\ activeReplicationId = Undefined
    /\ loadedEntityPathBatches = <<>>
    /\ entityPathsById = <<>>
    /\ loadedStatisticsFiles = <<>>
    /\ \E files \in BatchFileLists :
          call = [op |-> "load", files |-> files, left |-> 1..Len(files)]
    /\ ret = NoReturn
    /\ reads = <<>>
    /\ before = NoSnapshot

\* one call of loadEntityPathBatch from its has() test to its end
LoadBatch(st, fileInfo) ==
    IF MapHas(st.batches, fileInfo.filePath)
    THEN st
    ELSE StoreBatch(st, fileInfo.filePath, fetchAndParseJSON(fileInfo.content))

\* loadEntityPathBatch is called for the j-th file of the list
loadEntityPathBatch(j) ==
    /\ call.op = "load"
    /\ j \in call.left
    /\ LET loaded == LoadBatch(Cur, call.files[j])
       IN  /\ loadedEntityPathBatches' = loaded.batches
           /\ entityPathsById' = loaded.index
    /\ call' = [call EXCEPT !.left = @ \ {j}]
    /\ UNCHANGED <<variant, availableReplications, modelLayout, sharedVisualConfig,
                   activeReplicationId, loadedStatisticsFiles, ret, reads, before>>

MergeNext == \E j \in 1..MaxBatches : loadEntityPathBatch(j)

MergeSpec == InitMerge /\ [][MergeNext]_vars

(***************************************************************************)
(* Two calls of setActiveReplication that overlap: the caller invokes the  *)
(* second while the first is suspended on a read.  Each call has a slot in *)
(* call and in ret; a step is what one of the calls does between two       *)
(* suspensions, on the fields as the other call has left them.  The        *)
(* registry is one a caller has put two manifests into.                    *)
(***************************************************************************)
NotInvoked == [op |-> "not invoked"]

OverlapRegistries ==
    {<<Entry(Num(1), DirectData(m1)), Entry(Num(2), DirectData(m2))>> :
        m1 \in {ManifestA, ManifestC}, m2 \in {ManifestB, ManifestD}}

InitOverlap ==
    /\ variant \in {"AnimationData", "LoaderCopy"}
    /\ availableReplications \in OverlapRegistries
    /\ modelLayout = Undefined
    /\ sharedVisualConfig = Undefined
    /\ activeReplicationId = Undefined
    /\ loadedEntityPathBatches = <<>>
    /\ entityPathsById = <<>>
    /\ loadedStatisticsFiles = <<>>
    /\ call = [op |-> "two", slots |-> <<NotInvoked, NotInvoked>>]
    /\ ret = [op |-> "two", slots |-> <<NoReturn, NoReturn>>]
    /\ reads = <<>>
    /\ before = NoSnapshot

\* the instance as the call of slot s finds it when it runs
InSlot(s, position) == [Cur EXCEPT !.call = position, !.ret = ret.slots[s]]

\* the call of slot s has run up to its next suspension, or to its end, and
\* left st
LeftBy(s, st) ==
    /\ activeReplicationId' = st.active
    /\ loadedEntityPathBatches' = st.batches
    /\ entityPathsById' = st.index
    /\ loadedStatisticsFiles' = st.stats
    /\ call' = [call EXCEPT !.slots[s] = st.call]
    /\ ret' = [ret EXCEPT !.slots[s] = st.ret]
    /\ UNCHANGED <<variant, availableReplications, modelLayout, sharedVisualConfig,
                   reads, before>>

\* the call of slot s is suspended in the given stage
Suspended(s, stage) ==
    /\ call.op = "two"
    /\ call.slots[s].op = "activate"
    /\ call.slots[s].stage = stage

InvokeFirst(replicationId) ==
    /\ call.op = "two"
    /\ call.slots[1] = NotInvoked
    /\ LeftBy(1, Activate(InSlot(1, Idle), replicationId))

InvokeSecond(replicationId) ==
    /\ call.op = "two"
    /\ call.slots[1].op = "activate"
    /\ call.slots[2] = NotInvoked
    /\ LeftBy(2, Activate(InSlot(2, Idle), replicationId))

\* the read of the entity-path file the call of slot s waits for completes
CompleteBatchReadOf(s) ==
    /\ Suspended(s, "entities")
    /\ LET this == call.slots[s]
           path == this.manifest.entityPathDataFiles.items[this.i].filePath
           batch == fetchAndParseJSON(readFileAsText(path))
       IN  LeftBy(s, EntityLoop(StoreBatch(InSlot(s, this), path, batch), this.i + 1))

\* the statistics files whose reads the call of slot s has in flight
PendingOf(s) ==
    IF call.op = "two" /\ call.slots[s].op = "activate" THEN call.slots[s].pending ELSE {}

\* AnimationData: the read of one of the statistics files of slot s completes
CompleteStatisticsReadOf(s, j) ==
    /\ Suspended(s, "stats")
    /\ variant = "AnimationData"
    /\ j \in call.slots[s].pending
    /\ LET this == call.slots[s]
           path == this.manifest.statisticsDataFiles.items[j].filePath
           statFile == fetchAndParseJSON(readFileAsText(path))
           stored == StoreStatistics([InSlot(s, this) EXCEPT !.call.pending = @ \ {j}],
                                     path, statFile)
       IN  LeftBy(s, IF stored.call.pending = {} THEN ReturnTrue(stored) ELSE stored)

\* LoaderCopy: the read of the statistics file the call of slot s waits for completes
CompleteStatisticsReadInOrderOf(s) ==
    /\ Suspended(s, "stats")
    /\ variant = "LoaderCopy"
    /\ LET this == call.slots[s]
           path == this.manifest.statisticsDataFiles.items[this.i].filePath
           statFile == fetchAndParseJSON(readFileAsText(path))
       IN  LeftBy(s, StatLoop(StoreStatistics(InSlot(s, this), path, statFile), this.i + 1))

Slots == {1, 2}

OverlapNext ==
    \/ \E id \in ReplicationIds : InvokeFirst(id)
    \/ \E id \in ReplicationIds : InvokeSecond(id)
    \/ \E s \in Slots : CompleteBatchReadOf(s)
    \/ \E s \in Slots : \E j \in PendingOf(s) : CompleteStatisticsReadOf(s, j)
    \/ \E s \in Slots : CompleteStatisticsReadInOrderOf(s)

OverlapSpec == InitOverlap /\ [][OverlapNext]_vars

(***************************************************************************)
(* Notions the properties share.                                           *)
(***************************************************************************)
\* the last call was setActiveReplication(ret.id) and it returned true
ActivationReturned == call = Idle /\ ret.op = "activate" /\ ret.val = "true"

\* ... and the call before it was a setActiveReplication(before.id) that returned true
ActivatedTwice == ActivationReturned /\ before.taken

\* the manifest registered under the ID of the last activation
ReturnedManifest == MapGet(availableReplications, ret.id)

PathsOf(refs) == {refs.items[i].filePath : i \in 1..Len(refs.items)}

\* the entity IDs in the batch file at a path
EntityIdsIn(path) ==
    LET batch == fetchAndParseJSON(readFileAsText(path)) IN
    IF Truthy(batch) THEN MapKeys(batch.entries) ELSE {}

EntityIdsOf(manifest) == UNION {EntityIdsIn(p) : p \in PathsOf(manifest.entityPathDataFiles)}

\* the entries of a map, whatever their order
EntriesOf(m) == {m[i] : i \in 1..Len(m)}

LayoutPaths == {"layoutA.json", "layoutB.json", "layoutGone.json"}

ConfigPaths == {"configA.json", "configB.json", "configBad.json"}

(***************************************************************************)
(* C1.  After setActiveReplication(r1) and then setActiveReplication(r2),  *)
(* r1 # r2, have returned, the statistics cache holds only files that      *)
(* r2's manifest references.  The LoaderCopy does not clear the statistics *)
(* cache, and there this fails.                                            *)
(***************************************************************************)
C1_StatisticsOnlyOfActive ==
    (ActivatedTwice /\ before.id # ret.id)
        => MapKeys(loadedStatisticsFiles) \subseteq PathsOf(ReturnedManifest.statisticsDataFiles)

(***************************************************************************)
(* C2.  After setActiveReplication(r1) and then setActiveReplication(r2),  *)
(* r1 # r2, have returned, getLoadedEntityIds() holds only entity IDs that *)
(* occur in batch files r2's manifest references.                          *)
(***************************************************************************)
C2_EntitiesOnlyOfActive ==
    (ActivatedTwice /\ before.id # ret.id)
        => getLoadedEntityIds \subseteq EntityIdsOf(ReturnedManifest)

\* r1 had loaded an entity that no batch of r2 holds, and r2 has loaded entities
C2_Witness ==
    /\ ActivatedTwice
    /\ before.id # ret.id
    /\ MapKeys(before.index) \ EntityIdsOf(ReturnedManifest) # {}
    /\ getLoadedEntityIds # {}

\* this step is an invocation of setActiveReplication(id)
InvokesActivation(id) ==
    /\ call = Idle
    /\ \/ call'.op = "activate" /\ call'.id = id
       \/ call' = Idle /\ ret'.op = "activate" /\ ret'.id = id

(***************************************************************************)
(* C3.  setActiveReplication(id) with an id that is no key of the registry *)
(* returns false and leaves the active ID, the batch cache, the entity     *)
(* index and the statistics cache as they were.                            *)
(***************************************************************************)
C3_UnknownIdChangesNothing ==
    [][\A id \in ReplicationIds :
          (InvokesActivation(id) /\ ~MapHas(availableReplications, id))
              => /\ call' = Idle
                 /\ ret'.val = "false"
                 /\ UNCHANGED <<activeReplicationId, loadedEntityPathBatches,
                                entityPathsById, loadedStatisticsFiles,
                                availableReplications>>]_vars

\* an unknown ID was refused while a replication was active and loaded
C3_Witness ==
    /\ call = Idle
    /\ ret.op = "activate"
    /\ ret.val = "false"
    /\ ~MapHas(availableReplications, ret.id)
    /\ activeReplicationId # Undefined
    /\ entityPathsById # <<>>
    /\ loadedStatisticsFiles # <<>>

(***************************************************************************)
(* C4.  No call and no query raises, whatever the reader returns.  A       *)
(* manifest without metadata makes discovery raise, a manifest without     *)
(* file lists makes activation raise, and a statistics file without        *)
(* metadata makes getStatistic raise.                                      *)
(***************************************************************************)
C4_NeverRaises ==
    /\ ret.op \in {"discover", "activate"} => ret.val # "raised"
    /\ \A q \in StatisticKeys : getStatistic(q[1], q[2], q[3]) # Raised

(***************************************************************************)
(* C5.  Discovery never aborts on a bad entry: a discovery call ends only  *)
(* when no entry of the listing is left to read.                           *)
(***************************************************************************)
C5_DiscoveryReadsEveryEntry ==
    [][(call.op = "discover" /\ call' = Idle) => SkipItems(Tail(call.items)) = <<>>]_vars

\* the file at a path is one that fetchAndParseJSON yields a document for
Loads(path) == Truthy(fetchAndParseJSON(readFileAsText(path)))

(***************************************************************************)
(* C6.  Within one setActiveReplication call the reader is asked for a     *)
(* file path at most once.  Stated here for the files that parse, which    *)
(* the first load caches: no such file is read a second time.  (A file     *)
(* that cannot be read or parsed is not cached, and is read again each     *)
(* time the manifest lists it.)                                            *)
(***************************************************************************)
C6_ReadAtMostOnce ==
    (call.op = "activate" \/ (call = Idle /\ ret.op = "activate"))
        => \A i, j \in 1..Len(reads) : (reads[i] = reads[j] /\ Loads(reads[i])) => i = j

\* every file of a statistics cache has metadata
AllHaveMetadata(stats) == \A i \in 1..Len(stats) : Truthy(stats[i].val.metadata)

(***************************************************************************)
(* C7.  setActiveReplication(id) followed by setActiveReplication(id)      *)
(* leaves the entity index, the entries of the statistics cache and the    *)
(* result of every getStatistic query as the first activation left them.   *)
(* Stated here for caches whose statistics files all have metadata, so     *)
(* that no query raises.                                                   *)
(***************************************************************************)
C7_ReactivationIdempotent ==
    (ActivatedTwice /\ before.id = ret.id /\ AllHaveMetadata(loadedStatisticsFiles))
        => /\ entityPathsById = before.index
           /\ EntriesOf(loadedStatisticsFiles) = EntriesOf(before.stats)
           /\ \A q \in StatisticKeys :
                 getStatistic(q[1], q[2], q[3]) = FindStatistic(before.stats, q[1], q[2], q[3])

(***************************************************************************)
(* C8.  Once the model layout is set, no step changes it; likewise the     *)
(* shared visual config.                                                   *)
(***************************************************************************)
C8_SharedDocumentsNeverOverwritten ==
    [][/\ Truthy(modelLayout) => modelLayout' = modelLayout
       /\ Truthy(sharedVisualConfig) => sharedVisualConfig' = sharedVisualConfig]_vars

\* a manifest that declares another, readable layout was registered after the
\* layout was set
C8_Witness ==
    /\ modelLayout = Doc("layoutA")
    /\ MapGet(availableReplications, Num(2)) = ManifestB
    /\ sharedVisualConfig = Doc("configA")

(***************************************************************************)
(* C9.  The model layout is fetched for one manifest only, the first that  *)
(* declares a path for it, and likewise the visual config: a discovery     *)
(* call asks the reader for at most one layout file and one config file.   *)
(***************************************************************************)
C9_SharedDocumentsFetchedOnce ==
    (call.op = "discover" \/ (call = Idle /\ ret.op = "discover"))
        => /\ Cardinality({i \in 1..Len(reads) : reads[i] \in LayoutPaths}) <= 1
           /\ Cardinality({i \in 1..Len(reads) : reads[i] \in ConfigPaths}) <= 1

(***************************************************************************)
(* C10.  Every entry of the registry is keyed by the replication number    *)
(* its manifest declares, and no key occurs twice: a manifest that         *)
(* declares a registered number replaces the manifest registered before.   *)
(***************************************************************************)
C10_RegistryKeyedByDeclaredNumber ==
    /\ \A i \in 1..Len(availableReplications) :
          availableReplications[i].key = availableReplications[i].val.metadata.replication
    /\ \A i, j \in 1..Len(availableReplications) :
          availableReplications[i].key = availableReplications[j].key => i = j

\* ManifestA, the one manifest that declares the number 1 and layoutA.json, was
\* registered, and ManifestC, which declares 1 too, has replaced it
C10_Witness ==
    /\ call = Idle
    /\ ret.op = "discover"
    /\ modelLayout = Doc("layoutA")
    /\ MapKeys(availableReplications) = {Num(1)}
    /\ availableReplications[1].val = ManifestC

(***************************************************************************)
(* C11.  A discovery whose directory cannot be listed is a no-op: it       *)
(* returns without raising, asks the reader for no file, and leaves the    *)
(* registry, the model layout, the visual config, the active ID and the    *)
(* caches as they were.                                                    *)
(***************************************************************************)
C11_UnlistableDirectoryIsNoOp ==
    [][(call = Idle /\ call' = Idle /\ ret'.op = "discover" /\ ~ret'.listed)
          => /\ ret'.val = "void"
             /\ reads' = <<>>
             /\ UNCHANGED <<availableReplications, modelLayout, sharedVisualConfig,
                            activeReplicationId, loadedEntityPathBatches,
                            entityPathsById, loadedStatisticsFiles>>]_vars

\* the directory could not be listed while there were a registry, shared
\* documents, an active replication and loaded caches to lose
C11_Witness ==
    /\ call = Idle
    /\ ret.op = "discover"
    /\ ~ret.listed
    /\ availableReplications # <<>>
    /\ Truthy(modelLayout)
    /\ activeReplicationId # Undefined
    /\ entityPathsById # <<>>
    /\ loadedStatisticsFiles # <<>>

(***************************************************************************)
(* C12.  After setActiveReplication(id) has returned true,                 *)
(* getActiveReplicationId() is id and getActiveReplicationMetadata() is    *)
(* the metadata of the manifest registered under id, whether discovery or  *)
(* the caller registered it; and a call that finds no replication active   *)
(* leaves none active unless it is an activation that returns true.  An    *)
(* activation that raises has recorded its ID by then, and there the       *)
(* second part fails.                                                      *)
(***************************************************************************)
C12_ActiveIdAndMetadata ==
    /\ [](ActivationReturned
            => /\ getActiveReplicationId = ret.id
               /\ getActiveReplicationMetadata = MapGet(availableReplications, ret.id).metadata)
    /\ [][(call = Idle /\ call' = Idle /\ activeReplicationId = Undefined)
            => \/ activeReplicationId' = Undefined
               \/ ret'.op = "activate" /\ ret'.val = "true"]_vars

\* the positions of the files of a statistics cache that declare the identity key
Declaring(files, key) ==
    {i \in 1..Len(files) : files[i].val.metadata = StatMeta(key[1], key[2], key[3])}

\* of those files the one that entered the cache first, undefined when there is none
FirstDeclaring(files, key) ==
    IF Declaring(files, key) = {}
    THEN Undefined
    ELSE files[CHOOSE i \in Declaring(files, key) :
                  \A j \in Declaring(files, key) : i <= j].val

\* the time series a query for key is answered from
SeriesFor(key) ==
    LET stat == FirstDeclaring(loadedStatisticsFiles, key) IN
    IF Truthy(stat) THEN stat.timeSeries ELSE <<>>

(***************************************************************************)
(* C13.  Asked for the time of a sample of the series it is answered from, *)
(* getStatisticValueAtTime returns the value of a sample with that time;   *)
(* series of a single sample and series with equal times included.  Stated *)
(* here for caches whose files all have metadata, so that no query raises. *)
(* A series of one sample yields undefined, and a series that begins with  *)
(* two samples of the time asked for yields NaN.                           *)
(***************************************************************************)
C13_ExactTimestampGivesSample ==
    (ret.op = "getStatisticValueAtTime" /\ AllHaveMetadata(loadedStatisticsFiles))
        => LET series == SeriesFor(ret.key)
               at == {i \in 1..Len(series) : series[i].time = ret.time}
           IN  at # {} => \E i \in at : ret.val = Number(series[i].value)

(***************************************************************************)
(* C14.  getStatisticValueAtTime returns undefined when no file matches,   *)
(* when the series has fewer than two samples and when the time asked for  *)
(* is before the first or after the last sample; otherwise it returns a    *)
(* number on the line through the first adjacent pair of samples that      *)
(* encloses the time.  For the series [(0,10),(10,20)] it returns 15 at 5  *)
(* and undefined at -1 and at 11.                                          *)
(***************************************************************************)
C14_LinearInterpolation ==
    ret.op = "getStatisticValueAtTime"
        => LET series == SeriesFor(ret.key)
               n == Len(series)
               enclosing == {i \in 1..(n - 1) :
                                series[i].time <= ret.time /\ ret.time <= series[i + 1].time}
           IN  /\ IF n < 2 \/ ret.time < series[1].time \/ ret.time > series[n].time
                  THEN ret.val = Undefined
                  ELSE /\ enclosing # {}
                       /\ ret.val.k = "number"
                       /\ LET i == CHOOSE i \in enclosing : \A j \in enclosing : i <= j
                              p == series[i]
                              q == series[i + 1]
                          IN  (ret.val.num - p.value * ret.val.den) * (q.time - p.time)
                                  = (ret.time - p.time) * (q.value - p.value) * ret.val.den
               /\ series = <<Point(0, 10), Point(10, 20)>>
                     => /\ ret.time = 5 => ret.val = Number(15)
                        /\ ret.time \in {-1, 11} => ret.val = Undefined

(***************************************************************************)
(* C15.  getStatistic returns the file that entered the statistics cache   *)
(* first among those that declare the three arguments, and undefined when  *)
(* no cached file declares them; getStatisticSummary returns the summary   *)
(* of that file, and undefined when there is none.                         *)
(***************************************************************************)
C15_FirstMatchAndItsSummary ==
    LET stat == FirstDeclaring(loadedStatisticsFiles, ret.key) IN
    /\ ret.op = "getStatistic" => ret.val = stat
    /\ ret.op = "getStatisticSummary"
          => ret.val = IF Truthy(stat) THEN stat.summary ELSE Undefined

(***************************************************************************)
(* C16.  getStatisticTimeSeriesForRange returns an array, never undefined: *)
(* the samples of the matched series with start <= time <= end, in the     *)
(* order of the file; the empty array when no file matches, when no sample *)
(* lies in the range and when start > end.                                 *)
(***************************************************************************)
C16_RangeIsFilteredSeries ==
    ret.op = "getStatisticTimeSeriesForRange"
        => LET series == SeriesFor(ret.key)
               inside == {i \in 1..Len(series) :
                             ret.start <= series[i].time /\ series[i].time <= ret.end}
           IN  /\ ret.val.k = "arr"
               /\ Len(ret.val.items) = Cardinality(inside)
               /\ \A i \in inside :
                     ret.val.items[Cardinality({j \in inside : j <= i})] = series[i]
               /\ ret.start > ret.end => ret.val.items = <<>>

(***************************************************************************)
(* C18.  getEntitiesByType(type) returns the entries of the entity index   *)
(* whose path has that type, all of them and no others, and leaves the     *)
(* index as it was.                                                        *)
(***************************************************************************)
C18_EntitiesByTypeIsTheSubset ==
    /\ [](ret.op = "getEntitiesByType"
            => /\ EntriesOf(ret.val)
                    = {e \in EntriesOf(entityPathsById) : e.val.type = ret.type}
               /\ \A i, j \in 1..Len(ret.val) : ret.val[i].key = ret.val[j].key => i = j)
    /\ [][ret'.op = "getEntitiesByType" => entityPathsById' = entityPathsById]_vars

\* a query for a type that some, but not all, entities of the index have
C18_Witness ==
    /\ ret.op = "getEntitiesByType"
    /\ ret.val # <<>>
    /\ Len(ret.val) < Len(entityPathsById)

\* the positions in a manifest's list of the batch files that parse and hold id
Holding(files, id) ==
    {i \in 1..Len(files) : id \in EntityIdsIn(files[i].filePath)}

(***************************************************************************)
(* C17.  When setActiveReplication has returned true, the entity index     *)
(* holds every ID of every batch file of the manifest that could be        *)
(* loaded, and no other; and for each ID it holds the entry of the batch   *)
(* listed last in the manifest among those that hold the ID.               *)
(***************************************************************************)
C17_LastBatchWins ==
    ActivationReturned
        => LET files == ReturnedManifest.entityPathDataFiles.items IN
           /\ MapKeys(entityPathsById) = EntityIdsOf(ReturnedManifest)
           /\ \A k \in 1..Len(entityPathsById) :
                 LET id == entityPathsById[k].key
                     last == CHOOSE i \in Holding(files, id) :
                                \A j \in Holding(files, id) : j <= i
                     batch == fetchAndParseJSON(readFileAsText(files[last].filePath))
                 IN  entityPathsById[k].val = MapGet(batch.entries, id)

\* the manifest lists b2.json before b1.json; both hold e2, with different
\* entries, and the index holds the one of b1.json
C17_Witness ==
    /\ ActivationReturned
    /\ ReturnedManifest = ManifestB
    /\ MapGet(entityPathsById, "e2") = MapGet(Batch1.entries, "e2")
    /\ MapGet(Batch1.entries, "e2") # MapGet(Batch2.entries, "e2")

\* a read that an activation in flight waits for can complete
ReadCanComplete ==
    \/ ENABLED CompleteBatchRead
    \/ \E j \in Pending : ENABLED CompleteStatisticsRead(j)
    \/ ENABLED CompleteStatisticsReadInOrder

\* the file at a path was attempted: it is in the cache, or it does not load
Attempted(cache, path) == MapHas(cache, path) \/ ~Loads(path)

(***************************************************************************)
(* C19.  setActiveReplication for a registered ID runs to completion: as   *)
(* long as the call is in flight a read it waits for can complete, and     *)
(* when it ends it has returned true, every entity-path file and every     *)
(* statistics file of the manifest has been loaded or skipped, and no load *)
(* is in flight.  A manifest without file lists makes the call raise, and  *)
(* there this fails.                                                       *)
(***************************************************************************)
C19_RunsToCompletion ==
    /\ call.op = "activate" => ReadCanComplete
    /\ (call = Idle /\ ret.op = "activate" /\ MapHas(availableReplications, ret.id))
          => /\ ret.val = "true"
             /\ \A path \in PathsOf(ReturnedManifest.entityPathDataFiles) :
                   Attempted(loadedEntityPathBatches, path)
             /\ \A path \in PathsOf(ReturnedManifest.statisticsDataFiles) :
                   Attempted(loadedStatisticsFiles, path)

(***************************************************************************)
(* C20.  The statistics files of an activation are loaded concurrently     *)
(* (the copy that uses Promise.all; the LoaderCopy loads them one after    *)
(* the other).  In whatever order the reads complete, when the activation  *)
(* has returned the statistics cache maps the paths of the manifest's      *)
(* statistics files that could be read and parsed, and no others, each to  *)
(* its parsed file; and no completing load changes the entry of another    *)
(* file.                                                                   *)
(***************************************************************************)
C20_ConcurrentLoadsKeepSlots ==
    /\ []((ActivationReturned /\ variant = "AnimationData")
            => /\ MapKeys(loadedStatisticsFiles)
                    = {path \in PathsOf(ReturnedManifest.statisticsDataFiles) : Loads(path)}
               /\ \A i \in 1..Len(loadedStatisticsFiles) :
                     loadedStatisticsFiles[i].val
                         = fetchAndParseJSON(readFileAsText(loadedStatisticsFiles[i].key)))
    /\ [][(variant = "AnimationData" /\ call.op = "activate" /\ call.stage = "stats")
            => \A i \in 1..Len(loadedStatisticsFiles) :
                  /\ i <= Len(loadedStatisticsFiles')
                  /\ loadedStatisticsFiles'[i] = loadedStatisticsFiles[i]]_vars

\* the reads of s1.json and s2.json, issued in this order, completed in the
\* other order, and both files are in the cache
C20_Witness ==
    /\ ActivationReturned
    /\ variant = "AnimationData"
    /\ ReturnedManifest = ManifestA
    /\ [i \in 1..Len(loadedStatisticsFiles) |-> loadedStatisticsFiles[i].key]
          = <<"s2.json", "s1.json">>

\* every file of the list has been loaded or skipped
AllLoaded == call.op = "load" /\ call.left = {}

\* the entity IDs in what the reader returns for a file
IdsInContent(content) ==
    LET batch == fetchAndParseJSON(content) IN
    IF Truthy(batch) THEN MapKeys(batch.entries) ELSE {}

\* no entity ID is in the batches of two files of the list
PairwiseDisjoint(files) ==
    \A i, j \in 1..Len(files) :
        i # j => IdsInContent(files[i].content) \cap IdsInContent(files[j].content) = {}

\* the instance after the files from the j-th on are loaded in the order of the list
RECURSIVE LoadListed(_, _, _)
LoadListed(st, files, j) ==
    IF j > Len(files) THEN st ELSE LoadListed(LoadBatch(st, files[j]), files, j + 1)

\* the entity index after the whole list is loaded in its order on clear caches
ListedIndex ==
    LoadListed([Cur EXCEPT !.batches = <<>>, !.index = <<>>], call.files, 1).index

\* the entries of the batches of the files that parse
EntriesInFiles(files) ==
    UNION {LET batch == fetchAndParseJSON(files[j].content)
           IN  IF Truthy(batch) THEN EntriesOf(batch.entries) ELSE {} : j \in 1..Len(files)}

(***************************************************************************)
(* C21.  When no entity ID is in two batches of a list of files, loading   *)
(* the files in any order leaves the same entity index as loading them in  *)
(* the order of the list: the same IDs, each with the same path, namely    *)
(* the entries of all the batches taken together, each ID once.  (The      *)
(* order in which the index holds the IDs is the order of the loading.)    *)
(***************************************************************************)
C21_DisjointBatchesCommute ==
    (AllLoaded /\ PairwiseDisjoint(call.files))
        => /\ EntriesOf(entityPathsById) = EntriesOf(ListedIndex)
           /\ EntriesOf(entityPathsById) = EntriesInFiles(call.files)
           /\ \A i, j \in 1..Len(entityPathsById) :
                 entityPathsById[i].key = entityPathsById[j].key => i = j

\* three batches without a common ID were loaded in another order than that of
\* the list
C21_Witness ==
    /\ AllLoaded
    /\ PairwiseDisjoint(call.files)
    /\ Len(entityPathsById) = 3
    /\ Len(loadedEntityPathBatches) = 3
    /\ loadedEntityPathBatches[1].key = BatchPath(3)
    /\ entityPathsById[1].val = EntityPath("Customer", <<3>>)
    /\ entityPathsById # ListedIndex

(***************************************************************************)
(* C22.  getEntityPath(id) returns what the entity index holds for id,     *)
(* undefined exactly when id is no key of the index, and leaves the index, *)
(* the batch cache, the statistics cache and the active ID as they were.   *)
(* In the copy that scans the batches for an ID the index does not have,   *)
(* batch[id] yields an inherited function for a name of Object.prototype:  *)
(* the call returns it and puts it into the index, and there this fails.   *)
(***************************************************************************)
C22_EntityPathIsPureLookup ==
    [][(call = Idle /\ ret'.op = "getEntityPath")
          => /\ ret'.val = MapGet(entityPathsById, ret'.id)
             /\ (ret'.val = Undefined) <=> ~MapHas(entityPathsById, ret'.id)
             /\ UNCHANGED <<entityPathsById, loadedEntityPathBatches,
                            loadedStatisticsFiles, activeReplicationId>>]_vars

\* the entity IDs of the batches the batch cache holds
CachedEntityIds ==
    UNION {MapKeys(loadedEntityPathBatches[i].val.entries) :
              i \in 1..Len(loadedEntityPathBatches)}

\* the batch file paths the registered manifests reference
RegisteredBatchPaths ==
    UNION {LET files == availableReplications[r].val.entityPathDataFiles
           IN  IF Truthy(files) THEN PathsOf(files) ELSE {} :
              r \in 1..Len(availableReplications)}

(***************************************************************************)
(* C23.  In every reachable state, the states in the middle of an          *)
(* activation included, the keys of the entity index are the entity IDs of *)
(* the batches in the batch cache, and every path the batch cache holds a  *)
(* batch for is referenced by a registered manifest.  A manifest that      *)
(* replaces the one of the active replication in the registry leaves the   *)
(* batches of the replaced manifest in the cache, and getEntityPath can    *)
(* put a name no batch holds into the index; there this fails.             *)
(***************************************************************************)
C23_IndexIsUnionOfCachedBatches ==
    /\ MapKeys(entityPathsById) = CachedEntityIds
    /\ MapKeys(loadedEntityPathBatches) \subseteq RegisteredBatchPaths

\* two overlapping activations of different registered IDs have both returned true
BothReturned ==
    /\ call.op = "two"
    /\ call.slots = <<Idle, Idle>>
    /\ ret.slots[1].val = "true"
    /\ ret.slots[2].val = "true"
    /\ ret.slots[1].id # ret.slots[2].id

\* the entries of the batches that the entity-path files of a manifest hold
BatchEntriesOf(manifest) ==
    UNION {LET batch == fetchAndParseJSON(readFileAsText(path))
           IN  IF Truthy(batch) THEN EntriesOf(batch.entries) ELSE {} :
              path \in PathsOf(manifest.entityPathDataFiles)}

(***************************************************************************)
(* C24.  When two setActiveReplication calls for different registered IDs  *)
(* overlap, the second invoked while the first is suspended on a read,     *)
(* then once both have returned the entity index and the statistics cache  *)
(* hold only data of the manifest registered under the ID that             *)
(* getActiveReplicationId() reports.  The first call goes on to load its   *)
(* files into the caches the second call has cleared, and this fails.      *)
(***************************************************************************)
C24_OverlappingActivationsKeepOneReplication ==
    BothReturned
        => LET manifest == MapGet(availableReplications, getActiveReplicationId) IN
           /\ EntriesOf(entityPathsById) \subseteq BatchEntriesOf(manifest)
           /\ MapKeys(loadedStatisticsFiles) \subseteq PathsOf(manifest.statisticsDataFiles)

\* the positions in a manifest's list of the statistics files that load and
\* declare the identity key
ListedDeclaring(files, key) ==
    {i \in 1..Len(files) :
        /\ Loads(files[i].filePath)
        /\ fetchAndParseJSON(readFileAsText(files[i].filePath)).metadata
               = StatMeta(key[1], key[2], key[3])}

\* of those files the one the manifest lists first
FirstListed(files, key) ==
    fetchAndParseJSON(readFileAsText(
        files[CHOOSE i \in ListedDeclaring(files, key) :
                 \A j \in ListedDeclaring(files, key) : i <= j].filePath))

(***************************************************************************)
(* C25.  When two statistics files of the manifest of an activation that   *)
(* has returned true declare the same (type, componentId, metricName),     *)
(* getStatistic returns for it the one the manifest lists first, in        *)
(* whatever order the reads completed.  Stated here for caches whose files *)
(* all have metadata, so that no query raises.  The cache holds the files  *)
(* in the order in which their reads completed, and getStatistic returns   *)
(* the first of them in that order; there this fails.                      *)
(***************************************************************************)
C25_FirstListedFileAnswers ==
    (ActivationReturned /\ AllHaveMetadata(loadedStatisticsFiles))
        => LET files == ReturnedManifest.statisticsDataFiles.items IN
           \A q \in StatisticKeys :
               Cardinality({files[i].filePath : i \in ListedDeclaring(files, q)}) >= 2
                   => getStatistic(q[1], q[2], q[3]) = FirstListed(files, q)

\* this step is one of a setActiveReplication call: its invocation, or the
\* completion of a read it waits for
ActivationStep == call.op = "activate" \/ \E id \in ReplicationIds : InvokesActivation(id)

(***************************************************************************)
(* C26.  No step removes an ID from the registry, and no step of an        *)
(* activation changes the registry, the model layout or the visual config. *)
(* In every reachable state the active ID is unset or a key of the         *)
(* registry.  getActiveReplicationMetadata() is undefined only while no    *)
(* activation has succeeded: it is undefined only when the active ID is    *)
(* unset, an activation that returns true leaves the ID set, and no step   *)
(* unsets it.                                                              *)
(***************************************************************************)
C26_RegistryOutlivesActivations ==
    /\ [](/\ activeReplicationId = Undefined
             \/ MapHas(availableReplications, activeReplicationId)
          /\ getActiveReplicationMetadata = Undefined => activeReplicationId = Undefined
          /\ ActivationReturned => activeReplicationId = ret.id)
    /\ [][/\ MapKeys(availableReplications) \subseteq MapKeys(availableReplications')
          /\ ActivationStep
                => UNCHANGED <<availableReplications, modelLayout, sharedVisualConfig>>
          /\ activeReplicationId # Undefined => activeReplicationId' # Undefined]_vars

\* replication 1 was activated with ManifestA registered (only its batches hold
\* e1 and e3 together); a later discovery has put ManifestC in its place and
\* has registered replication 2, and the metadata reported is ManifestC's
C26_Witness ==
    /\ call = Idle
    /\ ret.op = "discover"
    /\ activeReplicationId = Num(1)
    /\ {"e1", "e3"} \subseteq MapKeys(entityPathsById)
    /\ MapGet(availableReplications, Num(1)) = ManifestC
    /\ MapHas(availableReplications, Num(2))
    /\ getActiveReplicationMetadata = ManifestC.metadata
    /\ Truthy(modelLayout)

====
